---- MODULE Spec2Model ----
(***************************************************************************)
(* A model of src/python/sushi_go_client.py: the SushiGoClient session     *)
(* (run, join_game, signal_ready, handle_message, parse_hand, play_turn)   *)
(* and its decision procedure (choose_card, have_set,                      *)
(* have_wasabi_and_nigiri).                                                *)
(*                                                                         *)
(* An inbound line is modelled by what the client decodes from it: its     *)
(* prefix (type), the card list a HAND line decodes to (cards) and the     *)
(* number of a ROUND_START line (n).  Hand indices are 0-based as in the   *)
(* protocol: index i names hand[i + 1] of the TLA+ sequence.               *)
(* GameState.game_id, player_id and the P2..P5 fields are written once or  *)
(* never and read nowhere; they are left out.  played_cards is a Python    *)
(* list that the client only clears, appends to, tests for membership and  *)
(* removes one "Chopsticks" from; none of these reads the order, and the   *)
(* list is kept as the bag of its elements.                                *)
(***************************************************************************)
EXTENDS Integers, Sequences, FiniteSets, Bags, TLC

VARIABLES
    pc,               \* where run() stands: init, joining, ready, playing, turn, ended
    sock,             \* TRUE while self.sock is an open socket, FALSE for None
    state,            \* self.state: <<>> for None, <<GameState>> otherwise
    message,          \* the last line receive() returned (decoded)
    out,              \* the commands sent since the last receive, in order
    sent,             \* the kinds of command sent since construction
    rule,             \* what last happened in this round: the branch of choose_card the
                      \* last decision returned from; new_round or same_round once a
                      \* HAND line is handled; none after ROUND_START and ROUND_END
    first_hand_seen   \* TRUE once the playing loop has handled a HAND line

vars == <<pc, sock, state, message, out, sent, rule, first_hand_seen>>

----------------------------------------------------------------------------
(* Bounds of the model                                                     *)

\* non-empty hands other than a lone Pudding are dealt within a round while fewer
\* cards than this are on the table
MaxPlayed == 2
\* non-empty hands are dealt while the Pudding counter is below this, and within
\* a round while the Tempura counter is below it too
MaxCount == 2
\* PLAYED lines are delivered while the turn counter (1 at first) is below this
MaxTurn == 2
\* ROUND_START lines carry a round number in 1..MaxRound
MaxRound == 1

----------------------------------------------------------------------------
(* Card vocabulary                                                         *)

CARD_NAMES ==
    { "Tempura", "Sashimi", "Dumpling",
      "Maki Roll (1)", "Maki Roll (2)", "Maki Roll (3)",
      "Egg Nigiri", "Salmon Nigiri", "Squid Nigiri",
      "Pudding", "Wasabi", "Chopsticks" }

NigiriNames == {"Egg Nigiri", "Salmon Nigiri", "Squid Nigiri"}

\* choose_card's "len(hand) > 5" threshold
BigHand == 5

----------------------------------------------------------------------------
(* Python list helpers                                                     *)

\* c in xs
In(c, xs) == \E i \in 1..Len(xs) : xs[i] = c

\* xs.index(c): the 0-based position of the first c
index(xs, c) ==
    CHOOSE i \in 0..(Len(xs) - 1) :
        /\ xs[i + 1] = c
        /\ \A j \in 0..(i - 1) : xs[j + 1] # c

\* [i for i, card in enumerate(xs) if card == c]
indexes(xs, c) ==
    SelectSeq([k \in 1..Len(xs) |-> k - 1], LAMBDA i : xs[i + 1] = c)

\* a faulty xs[:2]: xs[:1] * 2, the first element twice
first_two_repeated(xs) == IF xs = <<>> THEN <<>> ELSE <<xs[1], xs[1]>>

\* xs[:2]
first_two(xs) == SubSeq(xs, 1, IF Len(xs) < 2 THEN Len(xs) ELSE 2)

\* the number of c in xs
count(xs, c) == Cardinality({i \in 1..Len(xs) : xs[i] = c})

\* played_cards.append(c)
append(played, c) == played (+) SetToBag({c})

\* played_cards.remove(c): one c less
remove(played, c) == played (-) SetToBag({c})

----------------------------------------------------------------------------
(* GameState                                                               *)

ZeroCards == [c \in {"Dumpling", "Sashimi", "Tempura", "Pudding"} |-> 0]

\* GameState(game_id=..., player_id=..., hand=[])
NewGameState ==
    [ hand               |-> <<>>,
      starting_hand_size |-> 0,
      round              |-> 1,
      turn               |-> 1,
      played_cards       |-> EmptyBag,
      important_cards    |-> ZeroCards,
      has_chopsticks     |-> FALSE,
      has_unused_wasabi  |-> FALSE ]

\* one counter of important_cards raised by k
bump(s, c, k) ==
    [s EXCEPT !.important_cards[c] = s.important_cards[c] + k]

----------------------------------------------------------------------------
(* parse_hand                                                              *)

\* a faulty detection: a hand as long as the stored one starts a round too
new_round_on_equal(s, cards) == Len(cards) >= Len(s.hand)

\* "DETECT NEW ROUND": the incoming hand is longer than the stored one
new_round(s, cards) == Len(cards) > Len(s.hand)

\* a faulty reset: every counter zeroed, Pudding included
reset_round_all(s) ==
    [s EXCEPT !.played_cards = EmptyBag, !.important_cards = ZeroCards]

\* the reset parse_hand applies at a detected round boundary
reset_round(s) ==
    [s EXCEPT !.played_cards = EmptyBag,
              !.important_cards =
                  [ZeroCards EXCEPT !["Pudding"] = s.important_cards["Pudding"]]]

\* a faulty derivation: the wasabi counts as unused whatever nigiri followed it
track_flags_ignoring_nigiri(s) ==
    [s EXCEPT !.has_chopsticks = BagIn("Chopsticks", s.played_cards),
              !.has_unused_wasabi = BagIn("Wasabi", s.played_cards)]

\* a faulty derivation: has_chopsticks is left as it was
track_flags_wasabi_only(s) ==
    [s EXCEPT !.has_unused_wasabi =
                  /\ \E c \in BagToSet(s.played_cards) : c = "Wasabi"
                  /\ ~ \E c \in BagToSet(s.played_cards) : c \in NigiriNames]

\* the flags parse_hand derives from played_cards
track_flags(s) ==
    [s EXCEPT !.has_chopsticks = BagIn("Chopsticks", s.played_cards),
              !.has_unused_wasabi =
                  /\ \E c \in BagToSet(s.played_cards) : c = "Wasabi"
                  /\ ~ \E c \in BagToSet(s.played_cards) : c \in NigiriNames]

\* parse_hand on a HAND line that decodes to cards, self.state being s
parse_hand(s, cards) ==
    LET s1 == IF new_round(s, cards) THEN reset_round(s) ELSE s
        s2 == [s1 EXCEPT !.hand = cards]
    IN  track_flags(s2)

----------------------------------------------------------------------------
(* have_wasabi_and_nigiri, have_set                                        *)

have_wasabi_and_nigiri(hand) ==
    IF In("Wasabi", hand) /\ In("Squid Nigiri", hand)
    THEN <<index(hand, "Wasabi"), index(hand, "Squid Nigiri")>>
    ELSE IF In("Wasabi", hand) /\ In("Salmon Nigiri", hand)
    THEN <<index(hand, "Wasabi"), index(hand, "Salmon Nigiri")>>
    ELSE IF In("Wasabi", hand) /\ In("Egg Nigiri", hand)
    THEN <<index(hand, "Wasabi"), index(hand, "Egg Nigiri")>>
    ELSE <<>>

have_set(hand) ==
    SelectSeq(<<"Dumpling", "Sashimi", "Tempura">>,
              LAMBDA card : count(hand, card) >= 2)

----------------------------------------------------------------------------
(* choose_card                                                             *)
(* A decision is the record of what choose_card returns (card_index, and   *)
(* is_list for type(card_index) == list), the GameState it leaves, and the *)
(* branch it returned from.  The gates compare a hand length with a        *)
(* fraction of starting_hand_size in true division; they are cross-        *)
(* multiplied here.                                                        *)

play_one(s, i, r) ==
    [card_index |-> <<i>>, is_list |-> FALSE, state |-> s, rule |-> r]

play_two(s, ij, r) ==
    [card_index |-> ij, is_list |-> TRUE, state |-> s, rule |-> r]

\* a faulty gate: Dumpling is never deferred
dumpling_never_deferred(s) == FALSE

\* important_cards["Dumpling"] == 0 and len(self.state.hand) > starting_hand_size / 2
dumpling_deferred(s) ==
    /\ s.important_cards["Dumpling"] = 0
    /\ 2 * Len(s.hand) > s.starting_hand_size

\* important_cards["Sashimi"] == 0 and len(self.state.hand) > 2 * (starting_hand_size / 3)
sashimi_pair_gate(s) ==
    /\ s.important_cards["Sashimi"] = 0
    /\ 3 * Len(s.hand) > 2 * s.starting_hand_size

\* len(self.state.hand) >= starting_hand_size / 2
tempura_gate(s) == 2 * Len(s.hand) >= s.starting_hand_size

\* a faulty priority list: Maki Roll (3) ranks above Egg Nigiri
PRIORITY_maki_above_egg ==
    << "Squid Nigiri", "Salmon Nigiri", "Maki Roll (3)",
       "Egg Nigiri", "Maki Roll (2)", "Maki Roll (1)", "Pudding" >>

\* the priority list, then the random index rnd
PRIORITY ==
    << "Squid Nigiri", "Salmon Nigiri", "Egg Nigiri",
       "Maki Roll (3)", "Maki Roll (2)", "Maki Roll (1)", "Pudding" >>

RECURSIVE by_priority(_, _, _, _)
by_priority(s, hand, names, rnd) ==
    IF names = <<>>
    THEN play_one(s, rnd, "random")
    ELSE LET card == Head(names)
         IN  IF In(card, hand)
             THEN play_one(IF card = "Pudding" THEN bump(s, "Pudding", 1) ELSE s,
                           index(hand, card), "priority")
             ELSE by_priority(s, hand, Tail(names), rnd)

\* faulty single-card rules: a Sashimi is played whatever its counter says
set_building_any_sashimi(s, hand, rnd) ==
    IF /\ In("Dumpling", hand)
       /\ s.important_cards["Dumpling"] <= 4
       /\ ~ dumpling_deferred(s)
    THEN play_one(bump(s, "Dumpling", 1), index(hand, "Dumpling"), "single_dumpling")
    ELSE IF In("Sashimi", hand)
    THEN play_one(bump(s, "Sashimi", 1), index(hand, "Sashimi"), "single_sashimi")
    ELSE IF In("Tempura", hand) /\ tempura_gate(s)
    THEN LET s1 == bump(s, "Tempura", 1)
         IN  IF s1.important_cards["Tempura"] % 2 = 0 /\ Len(s1.hand) < 4
             THEN by_priority(s1, hand, PRIORITY, rnd)
             ELSE play_one(s1, index(hand, "Tempura"), "single_tempura")
    ELSE by_priority(s, hand, PRIORITY, rnd)

\* the single-card rules for Dumpling, Sashimi and Tempura, and what follows them
set_building(s, hand, rnd) ==
    IF /\ In("Dumpling", hand)
       /\ s.important_cards["Dumpling"] <= 4
       /\ ~ dumpling_deferred(s)
    THEN play_one(bump(s, "Dumpling", 1), index(hand, "Dumpling"), "single_dumpling")
    ELSE IF In("Sashimi", hand) /\ s.important_cards["Sashimi"] = 2
    THEN play_one(bump(s, "Sashimi", 1), index(hand, "Sashimi"), "single_sashimi")
    ELSE IF In("Tempura", hand) /\ tempura_gate(s)
    THEN LET s1 == bump(s, "Tempura", 1)
         IN  IF s1.important_cards["Tempura"] % 2 = 0 /\ Len(s1.hand) < 4
             THEN by_priority(s1, hand, PRIORITY, rnd)
             ELSE play_one(s1, index(hand, "Tempura"), "single_tempura")
    ELSE by_priority(s, hand, PRIORITY, rnd)

\* "for name in playing": the set pair the chopsticks are spent on, if any
RECURSIVE chopsticks_set(_, _, _, _)
chopsticks_set(s, hand, names, rnd) ==
    IF names = <<>>
    THEN set_building(s, hand, rnd)
    ELSE LET name == Head(names)
         IN  IF /\ name = "Dumpling"
                /\ s.important_cards["Dumpling"] <= 3
                /\ ~ dumpling_deferred(s)
             THEN play_two([bump(s, "Dumpling", 2) EXCEPT !.has_chopsticks = FALSE],
                           first_two(indexes(hand, "Dumpling")), "chopsticks_dumpling")
             ELSE IF /\ name = "Dumpling"
                     /\ s.important_cards["Dumpling"] <= 3
             THEN chopsticks_set(s, hand, Tail(names), rnd)
             ELSE IF name = "Sashimi" /\ sashimi_pair_gate(s)
             THEN play_two([bump(s, "Sashimi", 2) EXCEPT !.has_chopsticks = FALSE],
                           first_two(indexes(hand, "Sashimi")), "chopsticks_sashimi")
             ELSE IF name = "Tempura"
             THEN play_two([bump(s, "Tempura", 2) EXCEPT !.has_chopsticks = FALSE],
                           first_two(indexes(hand, "Tempura")), "chopsticks_tempura")
             ELSE chopsticks_set(s, hand, Tail(names), rnd)

\* "if self.state.has_chopsticks": the wasabi+nigiri pair, else a set pair
chopsticks_combo(s, hand, rnd) ==
    IF s.has_chopsticks /\ Len(have_wasabi_and_nigiri(hand)) = 2
    THEN play_two(s, have_wasabi_and_nigiri(hand), "chopsticks_wasabi_nigiri")
    ELSE IF s.has_chopsticks
    THEN chopsticks_set(s, hand, have_set(hand), rnd)
    ELSE set_building(s, hand, rnd)

\* the best nigiri of names (in that order) in hand, played on the unused wasabi
RECURSIVE spend_wasabi(_, _, _, _, _)
spend_wasabi(s, hand, names, r, rnd) ==
    IF names = <<>>
    THEN chopsticks_combo(s, hand, rnd)
    ELSE IF In(Head(names), hand)
    THEN play_one([s EXCEPT !.has_unused_wasabi = FALSE], index(hand, Head(names)), r)
    ELSE spend_wasabi(s, hand, Tail(names), r, rnd)

\* a faulty choose_card: the Chopsticks rule is tried before the Wasabi rule
choose_card_chopsticks_first(s, hand, rnd) ==
    IF ~ s.has_chopsticks /\ In("Chopsticks", hand) /\ Len(hand) > BigHand
    THEN play_one(s, index(hand, "Chopsticks"), "acquire_chopsticks")
    ELSE IF ~ s.has_unused_wasabi /\ In("Wasabi", hand) /\ Len(hand) > BigHand
    THEN play_one(s, index(hand, "Wasabi"), "acquire_wasabi")
    ELSE IF s.has_unused_wasabi /\ Len(hand) > BigHand
    THEN spend_wasabi(s, hand, <<"Squid Nigiri", "Salmon Nigiri">>,
                      "spend_wasabi_large", rnd)
    ELSE IF s.has_unused_wasabi /\ Len(hand) <= BigHand
    THEN spend_wasabi(s, hand, <<"Squid Nigiri", "Salmon Nigiri", "Egg Nigiri">>,
                      "spend_wasabi_small", rnd)
    ELSE chopsticks_combo(s, hand, rnd)

\* a faulty choose_card: held chopsticks take a wasabi+nigiri pair before an
\* unused wasabi is spent
choose_card_pair_before_spend(s, hand, rnd) ==
    IF ~ s.has_unused_wasabi /\ In("Wasabi", hand) /\ Len(hand) > BigHand
    THEN play_one(s, index(hand, "Wasabi"), "acquire_wasabi")
    ELSE IF ~ s.has_chopsticks /\ In("Chopsticks", hand) /\ Len(hand) > BigHand
    THEN play_one(s, index(hand, "Chopsticks"), "acquire_chopsticks")
    ELSE IF s.has_chopsticks /\ Len(have_wasabi_and_nigiri(hand)) = 2
    THEN play_two(s, have_wasabi_and_nigiri(hand), "chopsticks_wasabi_nigiri")
    ELSE IF s.has_unused_wasabi /\ Len(hand) > BigHand
    THEN spend_wasabi(s, hand, <<"Squid Nigiri", "Salmon Nigiri">>,
                      "spend_wasabi_large", rnd)
    ELSE IF s.has_unused_wasabi /\ Len(hand) <= BigHand
    THEN spend_wasabi(s, hand, <<"Squid Nigiri", "Salmon Nigiri", "Egg Nigiri">>,
                      "spend_wasabi_small", rnd)
    ELSE chopsticks_combo(s, hand, rnd)

\* choose_card(hand) with self.state = s; rnd is what random.randint returns
choose_card(s, hand, rnd) ==
    IF ~ s.has_unused_wasabi /\ In("Wasabi", hand) /\ Len(hand) > BigHand
    THEN play_one(s, index(hand, "Wasabi"), "acquire_wasabi")
    ELSE IF ~ s.has_chopsticks /\ In("Chopsticks", hand) /\ Len(hand) > BigHand
    THEN play_one(s, index(hand, "Chopsticks"), "acquire_chopsticks")
    ELSE IF s.has_unused_wasabi /\ Len(hand) > BigHand
    THEN spend_wasabi(s, hand, <<"Squid Nigiri", "Salmon Nigiri">>,
                      "spend_wasabi_large", rnd)
    ELSE IF s.has_unused_wasabi /\ Len(hand) <= BigHand
    THEN spend_wasabi(s, hand, <<"Squid Nigiri", "Salmon Nigiri", "Egg Nigiri">>,
                      "spend_wasabi_small", rnd)
    ELSE chopsticks_combo(s, hand, rnd)

----------------------------------------------------------------------------------------------------------------------------------------
(* play_card, play_chopsticks, play_turn                                   *)

Command(name, args) == [cmd |-> name, args |-> args]

\* play_card(card_index): what it sends; it does not receive
play_card(card_index) == <<Command("PLAY", <<card_index>>)>>

\* a faulty play_chopsticks: the two cards go out as two PLAY commands
play_chopsticks_as_two_plays(index1, index2) ==
    <<Command("PLAY", <<index1>>), Command("PLAY", <<index2>>)>>

\* play_chopsticks(index1, index2): what it sends; it does not receive
play_chopsticks(index1, index2) == <<Command("CHOPSTICKS", <<index1, index2>>)>>

\* a faulty update: has_chopsticks is left as choose_card returned it
after_chopsticks_keeping_flag(s, ij) ==
    LET played == append(append(s.played_cards, s.hand[ij[1] + 1]), s.hand[ij[2] + 1])
    IN  [s EXCEPT
           !.played_cards =
               IF BagIn("Chopsticks", played) THEN remove(played, "Chopsticks") ELSE played]

\* a faulty update: the Chopsticks card stays in played_cards
after_chopsticks_keeping_card(s, ij) ==
    [s EXCEPT
        !.played_cards = append(append(s.played_cards, s.hand[ij[1] + 1]), s.hand[ij[2] + 1]),
        !.has_chopsticks = FALSE]

\* "Immediately update local state" after a CHOPSTICKS command
after_chopsticks(s, ij) ==
    LET played == append(append(s.played_cards, s.hand[ij[1] + 1]), s.hand[ij[2] + 1])
    IN  [s EXCEPT
           !.played_cards =
               IF BagIn("Chopsticks", played) THEN remove(played, "Chopsticks") ELSE played,
           !.has_chopsticks = FALSE]

\* "Immediately update local state" after a PLAY command
after_play(s, i) ==
    [s EXCEPT !.played_cards = append(s.played_cards, s.hand[i + 1])]

\* play_turn with a non-empty stored hand: the commands sent, the state left
play_turn(s, rnd) ==
    LET d == choose_card(s, s.hand, rnd)
    IN  IF d.is_list
        THEN [ commands |-> play_chopsticks(d.card_index[1], d.card_index[2]),
               rule     |-> d.rule,
               state    |-> after_chopsticks(d.state, d.card_index) ]
        ELSE [ commands |-> play_card(d.card_index[1]),
               rule     |-> d.rule,
               state    |-> after_play(d.state, d.card_index[1]) ]

----------------
(* handle_message                                                          *)

Line(t, cards, n) == [type |-> t, cards |-> cards, n |-> n]

NoLine == Line("", <<>>, 0)

\* a faulty handle_message: True on GAME_END as well
keeps_running_always(m) == TRUE

\* what handle_message(message) returns: False on GAME_END alone
keeps_running(m) == m.type # "GAME_END"

\* a faulty handle_message: ROUND_START and ROUND_END clear the counters as well
handle_message_clearing_counters(s, m) ==
    [ running |-> keeps_running(m),
      state   |->
          IF m.type = "HAND"
          THEN parse_hand(s, m.cards)
          ELSE IF m.type = "ROUND_START"
          THEN [s EXCEPT !.round = m.n, !.turn = 1, !.played_cards = EmptyBag,
                         !.important_cards = ZeroCards]
          ELSE IF m.type = "PLAYED"
          THEN [s EXCEPT !.turn = s.turn + 1]
          ELSE IF m.type = "ROUND_END"
          THEN [s EXCEPT !.played_cards = EmptyBag, !.important_cards = ZeroCards]
          ELSE s ]

\* handle_message(message) with self.state = s: the state left and the value returned
handle_message(s, m) ==
    [ running |-> keeps_running(m),
      state   |->
          IF m.type = "HAND"
          THEN parse_hand(s, m.cards)
          ELSE IF m.type = "ROUND_START"
          THEN [s EXCEPT !.round = m.n, !.turn = 1, !.played_cards = EmptyBag]
          ELSE IF m.type = "PLAYED"
          THEN [s EXCEPT !.turn = s.turn + 1]
          ELSE IF m.type = "ROUND_END"
          THEN [s EXCEPT !.played_cards = EmptyBag]
          ELSE s ]

----------------------------------------------------------------------------
(* What the server sends                                                   *)

\* h followed by Maki Roll (1) cards up to BigHand + 1 cards
Padded(h) == h \o [i \in 1..(BigHand + 1 - Len(h)) |-> "Maki Roll (1)"]

\* two-card hands: a pair of one set card, or Wasabi with a nigiri
Pairs ==
    {<<c, c>> : c \in {"Dumpling", "Sashimi", "Tempura"}}
        \cup {<<"Wasabi", c>> : c \in {"Squid Nigiri", "Egg Nigiri"}}

\* hands of at most BigHand cards: no card, a card of the priority list only,
\* two nigiri with the better one second, and the pairs
ShortHands ==
    {<<>>, <<"Pudding">>, <<"Egg Nigiri", "Squid Nigiri">>} \cup Pairs

\* hands of more than BigHand cards
LongHands ==
    {Padded(<<c>>) :
        c \in {"Wasabi", "Chopsticks", "Squid Nigiri", "Tempura", "Dumpling"}}
        \cup {Padded(<<"Wasabi", "Egg Nigiri">>)}

\* the hands a HAND line may decode to
Hands == ShortHands \cup LongHands

\* lines with no card list and no number, by prefix ("" is an empty line)
PlainTypes == {"PLAYED", "ROUND_END", "GAME_END", "WAITING", "OK"}

Lines ==
    {Line("HAND", h, 0) : h \in Hands}
        \cup {Line("ROUND_START", <<>>, n) : n \in 1..MaxRound}
        \cup {Line(t, <<>>, 0) : t \in PlainTypes \cup {"WELCOME", "ERROR"}}

\* before the playing loop an empty line may arrive as well
EarlyLines == Lines \cup {Line("", <<>>, 0)}

\* the deliveries the bounds allow the playing loop, self.state being s
Deliverable(s, m) ==
    /\ m.type = "PLAYED" => s.turn < MaxTurn
    /\ (m.type = "HAND" /\ m.cards # <<>>) =>
          /\ s.important_cards["Pudding"] < MaxCount
          /\ \/ new_round(s, m.cards)
             \/ /\ BagCardinality(s.played_cards) < MaxPlayed
                /\ s.important_cards["Tempura"] < MaxCount
             \/ m.cards = <<"Pudding">>

----------------------------------------------------------------------------
(* The decisions of choose_card on their own                               *)
(* The playing loop can bring any hand together with any table and any     *)
(* counters: the server chooses the hands, ROUND_START and ROUND_END clear *)
(* played_cards and leave the counters, and the random fallback plays any  *)
(* card.  What the loop fixes at a decision is starting_hand_size and the  *)
(* Dumpling counter (both 0), the Sashimi counter (0, 2 or 3) and the two  *)
(* flags, which parse_hand has just derived from played_cards.             *)

\* h after Maki Roll (1) cards, BigHand + 1 cards in all
PaddedFront(h) == [i \in 1..(BigHand + 1 - Len(h)) |-> "Maki Roll (1)"] \o h

\* every hand of one or two cards
Cores ==
    {<<c>> : c \in CARD_NAMES} \cup {<<c, d>> : c, d \in CARD_NAMES}

\* hands of three and of six mixed cards
MixedHands ==
    { <<"Squid Nigiri", "Salmon Nigiri", "Maki Roll (3)">>,
      <<"Pudding", "Maki Roll (2)", "Egg Nigiri">>,
      <<"Wasabi", "Tempura", "Dumpling", "Sashimi", "Squid Nigiri", "Maki Roll (1)">>,
      <<"Chopsticks", "Squid Nigiri", "Wasabi", "Tempura", "Tempura", "Wasabi">> }

\* the hands a decision is taken on
DecisionHands ==
    Cores \cup {Padded(h) : h \in Cores} \cup {PaddedFront(h) : h \in Cores}
          \cup MixedHands

\* what is on the table at a decision
DecisionTables ==
    { EmptyBag, SetToBag({"Wasabi"}), SetToBag({"Chopsticks"}),
      SetToBag({"Wasabi", "Chopsticks"}), SetToBag({"Wasabi", "Squid Nigiri"}),
      SetToBag({"Chopsticks", "Wasabi", "Egg Nigiri"}) }

\* self.state when play_turn is entered: parse_hand has stored the hand and
\* derived the flags
DecisionStates ==
    { track_flags([NewGameState EXCEPT
                      !.hand = h,
                      !.played_cards = t,
                      !.important_cards =
                          [ZeroCards EXCEPT !["Sashimi"] = sa, !["Tempura"] = te,
                                            !["Pudding"] = pu]]) :
        h \in DecisionHands, t \in DecisionTables,
        sa \in {0, 2, 3}, te \in 0..MaxCount, pu \in {0, MaxCount} }

----------------------------------------------------------------------------
(* run                                                                     *)

Init ==
    /\ pc = "init"
    /\ sock = FALSE
    /\ state = <<>>
    /\ message = NoLine
    /\ out = <<>>
    /\ sent = {}
    /\ rule = "none"
    /\ first_hand_seen = FALSE

\* disconnect() in run's finally
Finally ==
    /\ pc' = "ended"
    /\ sock' = FALSE

\* connect() succeeds and join_game sends JOIN
Connect ==
    /\ pc = "init"
    /\ sock' = TRUE
    /\ out' = <<Command("JOIN", <<>>)>>
    /\ sent' = sent \cup {"JOIN"}
    /\ pc' = "joining"
    /\ UNCHANGED <<state, message, rule, first_hand_seen>>

\* connect() raises
ConnectFails ==
    /\ pc = "init"
    /\ Finally
    /\ UNCHANGED <<state, message, out, sent, rule, first_hand_seen>>

\* the predicate join_game gives receive_until
join_reply(m) == m.type \in {"WELCOME", "ERROR"}

\* a faulty join_game: ERROR is taken for WELCOME
join_game_accepting_error(response) ==
    [state |-> <<NewGameState>>, joined |-> TRUE]

\* join_game once receive_until returned response: self.state and the value returned
join_game(response) ==
    IF response.type = "WELCOME"
    THEN [state |-> <<NewGameState>>, joined |-> TRUE]
    ELSE [state |-> <<>>, joined |-> FALSE]

\* join_game's receive_until gets a line; when join_game returns True run goes on
\* to signal_ready, which sends READY
JoinReceive(m) ==
    /\ pc = "joining"
    /\ message' = m
    /\ IF ~ join_reply(m)
       THEN /\ out' = <<>>
            /\ UNCHANGED <<pc, sock, state, sent>>
       ELSE /\ state' = join_game(m).state
            /\ IF join_game(m).joined
               THEN /\ out' = <<Command("READY", <<>>)>>
                    /\ sent' = sent \cup {"READY"}
                    /\ pc' = "ready"
                    /\ UNCHANGED sock
               ELSE /\ Finally
                    /\ out' = <<>>
                    /\ UNCHANGED sent
    /\ UNCHANGED <<rule, first_hand_seen>>

\* signal_ready's receive returns any line; run records starting_hand_size
ReadyReceive(m) ==
    /\ pc = "ready"
    /\ message' = m
    /\ out' = <<>>
    /\ state' = <<[state[1] EXCEPT
                     !.starting_hand_size = Len(state[1].hand),
                     !.important_cards = ZeroCards]>>
    /\ pc' = "playing"
    /\ UNCHANGED <<sock, sent, rule, first_hand_seen>>

\* one pass of the loop up to play_turn: receive and handle_message
Receive(m) ==
    /\ pc = "playing"
    /\ Deliverable(state[1], m)
    /\ message' = m
    /\ out' = <<>>
    /\ LET r == handle_message(state[1], m)
       IN  /\ state' = <<r.state>>
           /\ IF m.type = "HAND" /\ r.state.hand # <<>>
              THEN pc' = "turn" /\ UNCHANGED sock
              ELSE IF r.running
              THEN UNCHANGED <<pc, sock>>
              ELSE Finally
    /\ rule' = IF m.type = "HAND"
               THEN IF new_round(state[1], m.cards) THEN "new_round" ELSE "same_round"
               ELSE IF m.type \in {"ROUND_START", "ROUND_END"} THEN "none" ELSE rule
    /\ first_hand_seen' = (first_hand_seen \/ m.type = "HAND")
    /\ UNCHANGED sent

\* the rest of that pass: play_turn
PlayTurn ==
    /\ pc = "turn"
    /\ \E rnd \in 0..(Len(state[1].hand) - 1) :
          LET t == play_turn(state[1], rnd)
          IN  /\ state' = <<t.state>>
              /\ out' = t.commands
              /\ sent' = sent \cup {t.commands[i].cmd : i \in 1..Len(t.commands)}
              /\ rule' = t.rule
    /\ pc' = "playing"
    /\ UNCHANGED <<sock, message, first_hand_seen>>

\* a blocking receive raises: the server closed the connection, or the user interrupts
ReceiveFails(why) ==
    /\ pc \in {"joining", "ready", "playing"}
    /\ message' = Line(why, <<>>, 0)
    /\ out' = <<>>
    /\ Finally
    /\ UNCHANGED <<state, sent, rule, first_hand_seen>>

Next ==
    \/ Connect
    \/ ConnectFails
    \/ \E m \in EarlyLines : JoinReceive(m)
    \/ \E m \in EarlyLines : ReadyReceive(m)
    \/ \E m \in Lines : Receive(m)
    \/ PlayTurn
    \/ \E why \in {"closed", "interrupt"} : ReceiveFails(why)

Spec == Init /\ [][Next]_vars

\* the playing loop about to call play_turn on a hand it has just stored
DecisionInit ==
    /\ pc = "turn"
    /\ sock = TRUE
    /\ \E s \in DecisionStates :
          /\ state = <<s>>
          /\ message = Line("HAND", s.hand, 0)
    /\ out = <<>>
    /\ sent = {"JOIN", "READY"}
    /\ rule = "same_round"
    /\ first_hand_seen = TRUE

DecisionNext == PlayTurn

DecisionSpec == DecisionInit /\ [][DecisionNext]_vars

----------------------------------------------------------------------------
(* Properties                                                              *)
(* The state the loop blocks in is pc = "playing"; the state in which the  *)
(* Decision Engine is invoked is pc = "turn".  At pc = "playing", out is   *)
(* non-empty exactly after a decision, and then gs.hand is still the hand  *)
(* the decision was taken on.                                              *)

\* self.state once it is set
gs == state[1]

\* the first nigiri of Squid, Salmon, Egg that hand holds
BestNigiri(hand) ==
    IF In("Squid Nigiri", hand) THEN "Squid Nigiri"
    ELSE IF In("Salmon Nigiri", hand) THEN "Salmon Nigiri"
    ELSE "Egg Nigiri"

\* the card of the stored hand that the k-th index of the command sent names
Named(k) == gs.hand[out[1].args[k] + 1]

\* a step of the playing loop that handles a HAND line
HandlesHand == pc = "playing" /\ message'.type = "HAND"

RoundBoundaryResets ==
    [][ (HandlesHand /\ Len(message'.cards) > Len(gs.hand)) =>
            /\ pc' = "turn"
            /\ out' = <<>>
            /\ state'[1].played_cards = EmptyBag
            /\ state'[1].important_cards["Dumpling"] = 0
            /\ state'[1].important_cards["Sashimi"] = 0
            /\ state'[1].important_cards["Tempura"] = 0
            /\ state'[1].important_cards["Pudding"] = gs.important_cards["Pudding"]
            /\ state'[1].hand = message'.cards ]_vars

\* C2 witness: a longer hand has just been stored while a Pudding was counted
BoundaryAfterPudding ==
    /\ pc = "turn"
    /\ rule = "new_round"
    /\ gs.important_cards["Pudding"] > 0
    /\ gs.played_cards = EmptyBag

\* C3: once the first HAND line of the game is processed, starting_hand_size is
\* the length of that hand, and it keeps its value from then on.
StartingHandSizeIsFirstHand ==
    /\ [][ (HandlesHand /\ ~ first_hand_seen) =>
               state'[1].starting_hand_size = Len(message'.cards) ]_vars
    /\ [][ (pc \in {"playing", "turn"} /\ first_hand_seen) =>
               state'[1].starting_hand_size = gs.starting_hand_size ]_vars

\* C4: after Wasabi is played by the acquire rule, the next HAND line of the
\* same round leaves has_unused_wasabi true; after a nigiri is played on the
\* unused wasabi, the next HAND line leaves it false.
WasabiLifecycle ==
    /\ [][ ( /\ HandlesHand
             /\ rule = "acquire_wasabi"
             /\ ~ new_round(gs, message'.cards) ) =>
               state'[1].has_unused_wasabi ]_vars
    /\ [][ ( /\ HandlesHand
             /\ rule \in {"spend_wasabi_large", "spend_wasabi_small"} ) =>
               ~ state'[1].has_unused_wasabi ]_vars

\* C5: after Chopsticks is played by the acquire rule, the next HAND line of the
\* same round leaves has_chopsticks true; right after any CHOPSTICKS command is
\* sent, has_chopsticks is false.
ChopsticksLifecycle ==
    /\ [][ ( /\ HandlesHand
             /\ rule = "acquire_chopsticks"
             /\ ~ new_round(gs, message'.cards) ) =>
               state'[1].has_chopsticks ]_vars
    /\ [] ( (pc = "playing" /\ out # <<>> /\ out[1].cmd = "CHOPSTICKS") =>
               ~ gs.has_chopsticks )

\* C5 witness: the chopsticks acquired by rule 2 are held at the next decision
\* of the round
ChopsticksHeld ==
    /\ pc = "turn"
    /\ rule = "same_round"
    /\ gs.has_chopsticks
    /\ gs.played_cards = SetToBag({"Chopsticks"})
    /\ Len(gs.hand) > BigHand

\* what the data model says has_unused_wasabi stands for
WasabiOnTable ==
    /\ BagIn("Wasabi", gs.played_cards)
    /\ \A c \in NigiriNames : ~ BagIn(c, gs.played_cards)

\* C6 as stated: whenever the playing loop blocks on the next receive,
\* has_unused_wasabi is true iff PlayedCards holds a Wasabi and no nigiri.
WasabiFlagTracksTableWhenBlocked ==
    pc = "playing" => (gs.has_unused_wasabi <=> WasabiOnTable)

\* C6 as amended: when a HAND line has just been processed (the Decision Engine
\* is about to be invoked, or the loop blocks again on an empty hand),
\* has_unused_wasabi is true iff PlayedCards holds a Wasabi and no nigiri.
WasabiFlagTracksTableAfterHand ==
    (pc = "turn" \/ (pc = "playing" /\ first_hand_seen
                     /\ message.type = "HAND" /\ out = <<>>)) =>
        (gs.has_unused_wasabi <=> WasabiOnTable)

\* C6 witness: a decision is about to be taken with an unused wasabi on the table
DecisionWithUnusedWasabi ==
    /\ pc = "turn"
    /\ gs.has_unused_wasabi
    /\ BagIn("Wasabi", gs.played_cards)

\* C7: in the playing loop a HAND line with a non-empty hand is answered by
\* exactly one PLAY or CHOPSTICKS before the next receive, and nothing else is
\* answered at all.
OneCommandPerHand ==
    /\ pc = "turn" => out = <<>>
    /\ pc = "playing" =>
          IF first_hand_seen /\ message.type = "HAND" /\ message.cards # <<>>
          THEN Len(out) = 1 /\ out[1].cmd \in {"PLAY", "CHOPSTICKS"}
          ELSE out = <<>>

\* C7 witness: the loop blocks again after answering a hand with CHOPSTICKS
HandAnswered ==
    /\ pc = "playing"
    /\ message.type = "HAND"
    /\ Len(out) = 1
    /\ out[1].cmd = "CHOPSTICKS"

\* nothing happens once run has returned
Terminal == [][pc = "ended" => UNCHANGED vars]_vars

\* C8: GAME_END handled in the playing loop ends the session: the socket is
\* released, nothing is sent with it, and nothing is received or sent after.
GameEndEndsSession ==
    /\ [][ (pc = "playing" /\ message'.type = "GAME_END") =>
               /\ pc' = "ended"
               /\ ~ sock'
               /\ out' = <<>>
               /\ sent' = sent ]_vars
    /\ Terminal

\* C8 witness: the session has ended on GAME_END after a card was played
EndedOnGameEnd ==
    /\ pc = "ended"
    /\ message.type = "GAME_END"
    /\ "PLAY" \in sent
    /\ ~ sock

\* C9: while joining, lines other than WELCOME and ERROR are skipped; ERROR ends
\* the session with no GameState, nothing sent but the JOIN, the socket released.
JoinRejectionIsFatal ==
    /\ [] (pc = "joining" => (state = <<>> /\ sent = {"JOIN"} /\ sock))
    /\ [][ (pc = "joining" /\ message'.type = "ERROR") =>
               /\ pc' = "ended"
               /\ ~ sock'
               /\ state' = <<>>
               /\ out' = <<>>
               /\ sent' = {"JOIN"} ]_vars
    /\ [][ ( /\ pc = "joining"
             /\ message'.type \notin {"WELCOME", "ERROR", "closed", "interrupt"} ) =>
               /\ pc' = "joining"
               /\ UNCHANGED <<sock, state, sent>> ]_vars
    /\ Terminal

\* C9 witness: the session has ended on ERROR
EndedOnJoinError ==
    /\ pc = "ended"
    /\ message.type = "ERROR"
    /\ state = <<>>
    /\ sent = {"JOIN"}
    /\ ~ sock

\* C10: a decision taken with a Dumpling in hand, the Dumpling counter at 0 and
\* the hand larger than half the starting hand size does not return from the
\* single-card Dumpling rule and leaves the Dumpling counter at 0.
DumplingDeferred ==
    [][ ( /\ pc = "turn"
          /\ In("Dumpling", gs.hand)
          /\ gs.important_cards["Dumpling"] = 0
          /\ 2 * Len(gs.hand) > gs.starting_hand_size ) =>
            /\ rule' # "single_dumpling"
            /\ state'[1].important_cards["Dumpling"] = 0 ]_vars

\* C10 witness: a decision was taken on a hand holding a Dumpling, with no
\* Dumpling counted before or after
DumplingPassedOver ==
    /\ pc = "playing"
    /\ out # <<>>
    /\ In("Dumpling", gs.hand)
    /\ gs.important_cards["Dumpling"] = 0
    /\ 2 * Len(gs.hand) > gs.starting_hand_size
    /\ rule = "priority"

----------------------------------------------------------------------------
(* Properties of the decisions (DecisionSpec and Spec)                     *)

\* the 0-based position of the first c in hand is i
FirstAt(hand, c, i) ==
    /\ i \in 0..(Len(hand) - 1)
    /\ hand[i + 1] = c
    /\ \A j \in 1..i : hand[j] # c

\* a step of play_turn that leaves the counters and the two flags as they were
KeepsCountersAndFlags ==
    /\ state'[1].important_cards = gs.important_cards
    /\ state'[1].has_chopsticks = gs.has_chopsticks
    /\ state'[1].has_unused_wasabi = gs.has_unused_wasabi

\* C11: on a hand of more than 5 cards that holds a Wasabi, with
\* has_unused_wasabi false, the decision is one PLAY of the first Wasabi of the
\* hand, whatever has_chopsticks, the counters and the other cards are, and it
\* changes no counter and no flag.
WasabiRuleFirst ==
    [][ ( /\ pc = "turn"
          /\ Len(gs.hand) > 5
          /\ In("Wasabi", gs.hand)
          /\ ~ gs.has_unused_wasabi ) =>
            /\ \E i \in 0..(Len(gs.hand) - 1) :
                  /\ FirstAt(gs.hand, "Wasabi", i)
                  /\ out' = <<Command("PLAY", <<i>>)>>
            /\ rule' = "acquire_wasabi"
            /\ KeepsCountersAndFlags ]_vars

\* C11 witness: the first of the two Wasabi of a hand
\* that also holds Chopsticks, a nigiri and a Tempura pair was played while
\* chopsticks were held
WasabiPlayedBeforeAll ==
    /\ pc = "playing"
    /\ gs.hand = <<"Chopsticks", "Squid Nigiri", "Wasabi", "Tempura", "Tempura", "Wasabi">>
    /\ out = <<Command("PLAY", <<2>>)>>
    /\ rule = "acquire_wasabi"
    /\ gs.has_chopsticks
    /\ gs.important_cards["Tempura"] = MaxCount

\* the order the fallback is specified to follow
FallbackOrder ==
    << "Squid Nigiri", "Salmon Nigiri", "Egg Nigiri",
       "Maki Roll (3)", "Maki Roll (2)", "Maki Roll (1)", "Pudding" >>

\* card is the first card of FallbackOrder that hand holds
BestOfFallback(hand, card) ==
    \E k \in 1..Len(FallbackOrder) :
        /\ FallbackOrder[k] = card
        /\ In(card, hand)
        /\ \A j \in 1..(k - 1) : ~ In(FallbackOrder[j], hand)

\* C12: on a non-empty hand of cards of the fallback list only (no Wasabi,
\* Chopsticks, Dumpling, Sashimi or Tempura), with both flags false, the
\* decision is one PLAY of the first occurrence of the highest-ranked card
\* present; the Pudding counter grows by 1 when that card is Pudding and is
\* unchanged otherwise, and no other counter changes.
FallbackFollowsPriority ==
    [][ ( /\ pc = "turn"
          /\ gs.hand # <<>>
          /\ \A i \in 1..Len(gs.hand) :
                gs.hand[i] \notin {"Wasabi", "Chopsticks", "Dumpling", "Sashimi", "Tempura"}
          /\ ~ gs.has_unused_wasabi
          /\ ~ gs.has_chopsticks ) =>
            \E card \in CARD_NAMES :
                /\ BestOfFallback(gs.hand, card)
                /\ \E i \in 0..(Len(gs.hand) - 1) :
                      /\ FirstAt(gs.hand, card, i)
                      /\ out' = <<Command("PLAY", <<i>>)>>
                /\ state'[1].important_cards =
                      [gs.important_cards EXCEPT
                          !["Pudding"] = @ + (IF card = "Pudding" THEN 1 ELSE 0)] ]_vars

\* C12 witness: the Egg Nigiri in third place was played from a hand that
\* holds a Pudding and a Maki Roll (2) before it
EggBeforeMakiAndPudding ==
    /\ pc = "playing"
    /\ gs.hand = <<"Pudding", "Maki Roll (2)", "Egg Nigiri">>
    /\ out = <<Command("PLAY", <<2>>)>>
    /\ rule = "priority"
    /\ ~ gs.has_unused_wasabi
    /\ ~ gs.has_chopsticks
    /\ gs.played_cards = SetToBag({"Egg Nigiri"})

\* C15: at a decision with has_unused_wasabi true on a hand of at most 5 cards
\* that holds a nigiri, the decision is one PLAY of the first occurrence of the
\* best nigiri present (Squid, then Salmon, then Egg); it leaves
\* has_unused_wasabi false and every counter as it was, whatever has_chopsticks
\* and the other cards are.
SmallHandSpendsWasabi ==
    [][ ( /\ pc = "turn"
          /\ gs.has_unused_wasabi
          /\ Len(gs.hand) <= 5
          /\ \E c \in NigiriNames : In(c, gs.hand) ) =>
            /\ \E i \in 0..(Len(gs.hand) - 1) :
                  /\ FirstAt(gs.hand, BestNigiri(gs.hand), i)
                  /\ out' = <<Command("PLAY", <<i>>)>>
            /\ ~ state'[1].has_unused_wasabi
            /\ state'[1].important_cards = gs.important_cards ]_vars

\* C15 witness: with chopsticks held and a Wasabi in hand beside it, the Squid
\* Nigiri alone was played on the unused wasabi
NigiriSpentBesideWasabi ==
    /\ pc = "playing"
    /\ gs.hand = <<"Wasabi", "Squid Nigiri">>
    /\ out = <<Command("PLAY", <<1>>)>>
    /\ rule = "spend_wasabi_small"
    /\ gs.has_chopsticks
    /\ ~ gs.has_unused_wasabi
    /\ BagIn("Wasabi", gs.played_cards)

----------------------------------------------------------------------------
(* Properties of the counters (Spec)                                       *)

\* C13: in the playing loop no step lowers the Pudding counter, whatever line
\* is handled and whatever is decided, and a HAND line that decodes to a hand
\* longer than the stored one leaves the Dumpling, Sashimi and Tempura
\* counters at 0.
PuddingNeverDecreases ==
    /\ [][ (pc = "playing" \/ pc = "turn") =>
               (gs.important_cards["Pudding"] <= state'[1].important_cards["Pudding"]) ]_vars
    /\ [][ (HandlesHand /\ new_round(gs, message'.cards)) =>
               \A c \in {"Dumpling", "Sashimi", "Tempura"} :
                   state'[1].important_cards[c] = 0 ]_vars

\* C13 witness: ROUND_START has been handled with a Pudding and a Tempura
\* counted, and both counters are as they were
PuddingKeptAtRoundStart ==
    /\ pc = "playing"
    /\ message.type = "ROUND_START"
    /\ gs.important_cards["Pudding"] > 0
    /\ gs.important_cards["Tempura"] > 0
    /\ gs.played_cards = EmptyBag

----------------------------------------------------------------------------
(* Properties of the tracker (Spec)                                        *)

\* C14: whenever the Decision Engine is invoked, has_chopsticks is true iff
\* PlayedCards holds a Chopsticks, and has_unused_wasabi is true iff PlayedCards
\* holds a Wasabi and no nigiri, whatever lines and plays came before.
FlagsDerivedAtDecision ==
    pc = "turn" =>
        /\ gs.has_chopsticks <=> BagIn("Chopsticks", gs.played_cards)
        /\ gs.has_unused_wasabi <=> WasabiOnTable

\* C14 witness: a decision is about to be taken with a Wasabi and a nigiri on
\* the table, and the wasabi does not count as unused
DecisionWithUsedWasabi ==
    /\ pc = "turn"
    /\ BagIn("Wasabi", gs.played_cards)
    /\ BagIn("Squid Nigiri", gs.played_cards)
    /\ ~ gs.has_unused_wasabi
    /\ ~ gs.has_chopsticks

\* C16: a HAND line that decodes to a hand no longer than the stored one leaves
\* PlayedCards, the four counters, round and turn (and starting_hand_size) as
\* they were; it replaces the stored hand and sets the two flags to what
\* PlayedCards says.
SameRoundHandKeepsTracker ==
    [][ (HandlesHand /\ Len(message'.cards) <= Len(gs.hand)) =>
            state'[1] = [gs EXCEPT
                            !.hand = message'.cards,
                            !.has_chopsticks = BagIn("Chopsticks", gs.played_cards),
                            !.has_unused_wasabi = WasabiOnTable] ]_vars

\* C16 witness: in the second turn a hand no longer than the stored one has been
\* stored while a Tempura is on the table and counted
SameRoundHandStored ==
    /\ pc = "turn"
    /\ rule = "same_round"
    /\ gs.turn = 2
    /\ gs.important_cards["Tempura"] > 0
    /\ BagIn("Tempura", gs.played_cards)

----------------------------------------------------------------------------
(* Properties of the session after WELCOME (Spec)                          *)

\* C17: every HAND line with a non-empty hand received after WELCOME, the first
\* line after READY included, puts the client before a decision, and the
\* client's next step from there is to send exactly one PLAY or CHOPSTICKS.
EveryHandAnswered ==
    /\ [][ ( /\ (pc = "ready" \/ pc = "playing")
             /\ message'.type = "HAND"
             /\ message'.cards # <<>> ) =>
               pc' = "turn" ]_vars
    /\ [][ pc = "turn" =>
               /\ pc' = "playing"
               /\ Len(out') = 1
               /\ out'[1].cmd \in {"PLAY", "CHOPSTICKS"} ]_vars

----------------------------------------------------------------------------
(* Properties of the counters against the table (Spec)                     *)

\* in s each of the Dumpling, Sashimi and Tempura counters is the number of
\* cards of that name in played_cards
CountersMatchTable(s) ==
    \A c \in {"Dumpling", "Sashimi", "Tempura"} :
        s.important_cards[c] = CopiesIn(c, s.played_cards)

\* C18: within a round the Dumpling, Sashimi and Tempura counters equal the
\* numbers of those cards in PlayedCards after every decision: they do when a
\* round starts, and a decision with its eager PlayedCards update keeps them
\* so (a play by the random fallback is counted, a decision that plays no
\* Tempura leaves the Tempura counter).
CountersCountPlayedCards ==
    /\ [][ (HandlesHand /\ new_round(gs, message'.cards)) =>
               CountersMatchTable(state'[1]) ]_vars
    /\ [][ (pc = "turn" /\ CountersMatchTable(gs)) =>
               CountersMatchTable(state'[1]) ]_vars

----------------------------------------------------------------------------
(* Properties of the chopsticks on the table (Spec)                        *)

\* the number of Chopsticks in played_cards of s
ChopsticksOnTable(s) == CopiesIn("Chopsticks", s.played_cards)

\* C19: a CHOPSTICKS command is sent only at a decision where has_chopsticks
\* is true and PlayedCards holds a Chopsticks, and it takes exactly one
\* Chopsticks off PlayedCards; a Chopsticks comes onto PlayedCards only by a
\* PLAY of a Chopsticks of the hand, one at a time, and leaves it only by a
\* CHOPSTICKS command or when PlayedCards is cleared.  So since the last
\* clearing the CHOPSTICKS commands are no more than the Chopsticks played.
ChopsticksSpentOnlyIfPlayed ==
    /\ [][ (pc = "turn" /\ out'[1].cmd = "CHOPSTICKS") =>
               /\ gs.has_chopsticks
               /\ ChopsticksOnTable(gs) >= 1
               /\ ChopsticksOnTable(state'[1]) = ChopsticksOnTable(gs) - 1 ]_vars
    /\ [][ ( /\ (pc = "playing" \/ pc = "turn")
             /\ ChopsticksOnTable(state'[1]) > ChopsticksOnTable(gs) ) =>
               /\ pc = "turn"
               /\ Len(out') = 1
               /\ out'[1].cmd = "PLAY"
               /\ gs.hand[out'[1].args[1] + 1] = "Chopsticks"
               /\ ChopsticksOnTable(state'[1]) = ChopsticksOnTable(gs) + 1 ]_vars
    /\ [][ ( /\ (pc = "playing" \/ pc = "turn")
             /\ ChopsticksOnTable(state'[1]) < ChopsticksOnTable(gs) ) =>
               \/ pc = "turn" /\ out'[1].cmd = "CHOPSTICKS"
               \/ state'[1].played_cards = EmptyBag ]_vars

\* C19 witness: a Wasabi and a nigiri went out in one CHOPSTICKS command, and
\* the Chopsticks that paid for it is off the table
ChopsticksReturned ==
    /\ pc = "playing"
    /\ out = <<Command("CHOPSTICKS", <<0, 1>>)>>
    /\ rule = "chopsticks_wasabi_nigiri"
    /\ gs.played_cards = SetToBag({"Wasabi", "Squid Nigiri"})
    /\ ~ gs.has_chopsticks

----------------------------------------------------------------------------
(* Properties of the Sashimi counter (Spec)                                *)

\* the Sashimi counter of s
Sashimi(s) == s.important_cards["Sashimi"]

\* C20: the Sashimi counter is 0, 2 or 3.  It changes in three ways only: from
\* 0 to 2 by a CHOPSTICKS command naming two Sashimi, from 2 to 3 by a PLAY of
\* a Sashimi, and to 0 by a HAND line that decodes to a hand longer than the
\* stored one.  So a Sashimi is counted by a single play only after a
\* chopsticks Sashimi pair of the same round.
SashimiCounterSteps ==
    /\ [] ((pc = "playing" \/ pc = "turn") => Sashimi(gs) \in {0, 2, 3})
    /\ [][ ( /\ (pc = "playing" \/ pc = "turn")
             /\ Sashimi(state'[1]) # Sashimi(gs) ) =>
               \/ /\ pc = "turn"
                  /\ Sashimi(gs) = 0
                  /\ Sashimi(state'[1]) = 2
                  /\ out'[1].cmd = "CHOPSTICKS"
                  /\ gs.has_chopsticks
                  /\ \A k \in 1..2 : gs.hand[out'[1].args[k] + 1] = "Sashimi"
               \/ /\ pc = "turn"
                  /\ Sashimi(gs) = 2
                  /\ Sashimi(state'[1]) = 3
                  /\ out'[1].cmd = "PLAY"
                  /\ gs.hand[out'[1].args[1] + 1] = "Sashimi"
               \/ /\ HandlesHand
                  /\ new_round(gs, message'.cards)
                  /\ Sashimi(state'[1]) = 0 ]_vars

\* C20 witness: the third Sashimi has been counted by a single play
SashimiTripleCounted ==
    /\ pc = "playing"
    /\ rule = "single_sashimi"
    /\ Sashimi(gs) = 3
    /\ out = <<Command("PLAY", <<0>>)>>

====
